---- MODULE Spec2Model ----
(***************************************************************************)
(* Model of signid's live demo (src/demo.py) and its drawing helpers       *)
(* (src/utils.py): the capture loop on the main thread, the detector's     *)
(* result callback print_result on the detector's thread, the module       *)
(* globals they share, and the pixel arithmetic of add_transparent_image.  *)
(***************************************************************************)
EXTENDS Integers, Sequences, FiniteSets, TLC

(* ------------------------------ bounds -------------------------------- *)

\* frames the camera delivers before the stream ends
MaxFrames == 3

\* pixels of an image in the compositor's specification (a 1 x NPix image)
NPix == 2

\* rows of the input table of the split utility
MaxRows == 5

(* ------------------------- program constants -------------------------- *)

INTERVAL == 10

\* num_hands of HandLandmarkerOptions: at most this many hands per result
NumHands == 2

\* the columns the scaler was fitted on: "hand" + x,y,z of 21 landmarks
NumFeatures == 64

\* landmarks of a well-formed hand: the columns x0..z20 of the dataset
NumLandmarks == 21

\* cv2.waitKey(5) & 0xFF == 27
ESC == 27

\* frame rates cam.get(cv2.CAP_PROP_FPS) may report (2000 gives a step of 0)
CamRates == {30, 100, 250, 2000}

\* keys cv2.waitKey may report (-1 & 0xFF = 255: no key)
Keys == {ESC, 255}

(* ------------------------------- data --------------------------------- *)

\* One detected hand: its landmark count, its handedness category index and
\* the pose the landmarks show (which decides the classifier's answer).
Hands ==
    { [n |-> 21, hd |-> 0, pose |-> "a"],
      [n |-> 21, hd |-> 1, pose |-> "b"],
      [n |-> 20, hd |-> 0, pose |-> "a"] }

RECURSIVE SeqsUpTo(_, _)
SeqsUpTo(S, k) ==
    IF k = 0 THEN { <<>> }
    ELSE LET shorter == SeqsUpTo(S, k - 1)
         IN  shorter \cup { Append(s, x) : s \in { t \in shorter : Len(t) = k - 1 }, x \in S }

\* result.hand_world_landmarks / result.handedness / result.hand_landmarks:
\* parallel lists, one entry per detected hand
Results == SeqsUpTo(Hands, NumHands)

\* landmark.x, landmark.y, landmark.z of landmark i (1-based) of a hand; the
\* coordinates are stood for by numbers that tell pose, landmark and axis
Coords(hand, i) ==
    LET base == (IF hand.pose = "a" THEN 1000 ELSE 2000) + 10 * i
    IN  <<base + 1, base + 2, base + 3>>

\* np.array([[l.x, l.y, l.z] for l in landmarks_ls[idx]]).flatten().tolist()
RECURSIVE Flatten(_, _)
Flatten(hand, k) ==
    IF k = 0 THEN <<>> ELSE Flatten(hand, k - 1) \o Coords(hand, k)

\* [handedness] + landmarks.tolist(): the row handed to scaler.transform
FeatureVector(hand) == <<hand.hd>> \o Flatten(hand, hand.n)

\* the rows of the hands of the model
Rows == [hand \in Hands |-> FeatureVector(hand)]

\* np.array([[handedness] + landmarks.tolist()]): 1 + 3 * n values
Encode(hand) ==
    [len |-> Len(Rows[hand]), hd |-> Rows[hand][1], pose |-> hand.pose]

\* scaler.transform raises ValueError on a row that has not the fitted width
ScalerRaises(data) == data.len # NumFeatures

\* classifier.predict(data)[0]
Predict(data) == IF data.pose = "a" THEN "A" ELSE "B"

\* np.array([]): the initial drawn_frame, of size 0. id is the identity of
\* the array object (0: the initial one; otherwise the timestamp_ms of the
\* print_result call that allocated it).
EmptyImage == [id |-> 0, size |-> 0, drawn |-> <<>>]

\* np.zeros(rgb_image.shape, dtype=np.uint8)
Zeros(id) == [id |-> id, size |-> 1, drawn |-> <<>>]

\* the labels cv2.putText wrote into an image, in drawing order
LabelsOf(image) == [i \in 1..Len(image.drawn) |-> image.drawn[i].text]

\* what draw_landmarks_on_image returns for a result and its predictions
RECURSIVE Rendered(_, _, _)
Rendered(id, result, preds) ==
    IF result = <<>> THEN Zeros(id)
    ELSE LET k    == Len(result)
             rest == Rendered(id, SubSeq(result, 1, k - 1), preds)
         IN  [rest EXCEPT !.drawn = Append(@, [hand |-> result[k], text |-> preds[k]])]

(* ------------------------------ state --------------------------------- *)

VARIABLES
    \* capture loop (main thread)
    pc,              \* position of the main thread
    fps,             \* per-frame timestamp step
    timestamp,
    show_timestamp,
    frames,          \* frames read so far
    submits,         \* detect_async calls so far
    ret,             \* result flag of the last cam.read()
    key,             \* result of the last cv2.waitKey(5) & 0xFF
    seen,            \* value of the last read of drawn_frame by the loop
    composited,      \* overlay composited onto the current frame (EmptyImage: none)
    landmarker,      \* "open" | "closed"
    cam,             \* "open" | "released"
    \* detector
    pending,         \* timestamps submitted whose callback has not started
    \* print_result (detector thread)
    cbPc,            \* "idle" | "classify" | "draw"
    cbResult,
    cbTs,
    cbIdx,
    annotated_image, \* local canvas of draw_landmarks_on_image
    \* module globals
    predictions,
    drawn_frame,
    \* history
    entry,           \* (drawn_frame, predictions) when the running/last call began
    outcome,         \* how the last finished call ended: "none" | "published" | "raised"
    finished,        \* images returned by finished draw_landmarks_on_image calls
    encoded,         \* the hand whose row was last built for scaler.transform (<<>>: none yet)
    submitted,       \* the timestamps passed to detect_async, in call order
    \* add_transparent_image on pixel arrays
    background,
    foreground,
    output,
    cpc,             \* "idle" (not in use) | "call" | "returned"
    \* the dataset split (Model/test.py)
    df,              \* the input table: row index -> letter
    spc,             \* "idle" (not in use) | "split" | "combine" | "done"
    letterIdx,       \* position of the for loop in letters
    train_data,      \* list of per-letter samples (sets of row indices)
    test_data,
    train_df,        \* the output tables: row index -> number of copies
    test_df

loopVars == <<pc, fps, timestamp, show_timestamp, frames, submits, ret, key,
              seen, composited, landmarker, cam>>
cbVars   == <<cbPc, cbResult, cbTs, cbIdx, annotated_image, predictions,
              drawn_frame, entry, outcome, finished, encoded>>
compVars == <<background, foreground, output, cpc>>
splitVars == <<df, spc, letterIdx, train_data, test_data, train_df, test_df>>
vars     == <<loopVars, pending, submitted, cbVars, compVars, splitVars>>


(* ------------------- add_transparent_image (utils.py) ----------------- *)

\* the 8-bit RGB pixels the two images are drawn from
BgPixels == { <<0, 0, 0>>, <<10, 20, 30>>, <<255, 255, 255>> }
FgPixels == { <<0, 0, 0>>, <<128, 128, 0>>, <<0, 0, 1>>, <<88, 205, 54>>, <<255, 255, 255>> }

PixelIdx == 1..NPix

\* uint8 arithmetic wraps
U8(x) == x % 256

\* np.sum(foreground, axis=-1): numpy accumulates uint8 in the platform
\* integer, so the channel sum does not wrap
ChannelSum(pixel) == pixel[1] + pixel[2] + pixel[3]

\* a bug: the channel sum is accumulated in uint8
AlphaOf_U8Sum(pixel) == IF U8(ChannelSum(pixel)) > 0 THEN 1 ELSE 0

\* np.uint8(np.sum(foreground, axis=-1) > 0), for one pixel
AlphaOf(pixel) == IF ChannelSum(pixel) > 0 THEN 1 ELSE 0

\* a bug: the mask is not inverted for the background term
KeepOf_NotInverted(alpha) == alpha

\* 1 - alpha_mask, in uint8
KeepOf(alpha) == U8(1 - alpha)

\* background * (1 - alpha_mask) + foreground_colors * alpha_mask, one pixel
BlendPixel(bg, fg) ==
    LET alpha == AlphaOf(fg)
    IN  [c \in 1..3 |-> U8(U8(bg[c] * KeepOf(alpha)) + U8(fg[c] * alpha))]

\* the array add_transparent_image returns
add_transparent_image(bgImage, fgImage) ==
    [i \in DOMAIN bgImage |-> BlendPixel(bgImage[i], fgImage[i])]

\* HANDEDNESS_TEXT_COLOR (utils.py 11)
TextColor == <<88, 205, 54>>

\* The pixels of an overlay: np.array([]) has none; np.zeros gives an
\* all-zero array of the frame's shape, in which every hand drawn (skeleton
\* and text) colours pixels, here one pixel per hand.
Raster(image) ==
    IF image.size = 0 THEN <<>>
    ELSE [i \in PixelIdx |-> IF i <= Len(image.drawn) THEN TextColor ELSE <<0, 0, 0>>]

\* One call of add_transparent_image on the two arrays. The function only
\* rebinds its local name `foreground` (np.dstack builds a new array) and
\* builds its result with out-of-place arithmetic: the caller's arrays stay.
Compose ==
    /\ cpc = "call"
    /\ output' = add_transparent_image(background, foreground)
    /\ cpc' = "returned"
    /\ UNCHANGED <<background, foreground>>
    /\ UNCHANGED splitVars

(* --------------------- print_result (demo.py 21-39) ------------------- *)

\* a bug: no except clause, the exception leaves the callback and ends the
\* detector's callback thread
CbExcept_Propagates ==
    /\ cbPc' = "dead"
    /\ outcome' = "raised"
    /\ cbIdx' = 0
    /\ annotated_image' = EmptyImage
    /\ UNCHANGED <<predictions, drawn_frame, finished, cbResult, cbTs, entry>>

\* a bug: the except clause resets the overlay to the empty array
CbExcept_ClearsOverlay ==
    /\ cbPc' = "idle"
    /\ outcome' = "raised"
    /\ cbIdx' = 0
    /\ annotated_image' = EmptyImage
    /\ drawn_frame' = EmptyImage
    /\ UNCHANGED <<predictions, finished, cbResult, cbTs, entry>>

\* except Exception as e: print(e)  -- the call returns, nothing is published
CbExcept ==
    /\ cbPc' = "idle"
    /\ outcome' = "raised"
    /\ cbIdx' = 0
    /\ annotated_image' = EmptyImage
    /\ UNCHANGED <<predictions, drawn_frame, finished, cbResult, cbTs, entry>>

\* a bug: the predictions of the last call are not cleared
CbBegin_NoReset ==
    /\ cbPc = "idle"
    /\ landmarker = "open"
    /\ pending # <<>>
    /\ \E result \in Results :
         /\ cbResult' = result
         /\ cbTs' = Head(pending)
         /\ pending' = Tail(pending)
         /\ entry' = [drawn_frame |-> drawn_frame, predictions |-> predictions]
         /\ cbIdx' = 1
         /\ cbPc' = "classify"
    /\ UNCHANGED <<predictions, drawn_frame, annotated_image, outcome, finished, encoded>>
    /\ UNCHANGED <<loopVars, submitted, compVars, splitVars>>

\* The detector invokes the callback for the oldest submitted frame, with the
\* hands it found; the body runs up to and including  predictions = [].
CbBegin ==
    /\ cbPc = "idle"
    /\ landmarker = "open"
    /\ pending # <<>>
    /\ \E result \in Results :
         /\ cbResult' = result
         /\ cbTs' = Head(pending)
         /\ pending' = Tail(pending)
         /\ entry' = [drawn_frame |-> drawn_frame, predictions |-> predictions]
         /\ predictions' = <<>>
         /\ cbIdx' = 1
         /\ cbPc' = "classify"
    /\ UNCHANGED <<drawn_frame, annotated_image, outcome, finished, encoded>>
    /\ UNCHANGED <<loopVars, submitted, compVars, splitVars>>

\* a bug: the try/except sits inside the loop, a failing hand is skipped
CbClassify_SkipFailing ==
    /\ cbPc = "classify"
    /\ cbIdx <= Len(cbResult)
    /\ LET data == Encode(cbResult[cbIdx])
       IN  predictions' = IF ScalerRaises(data) THEN predictions
                          ELSE Append(predictions, Predict(data))
    /\ cbIdx' = cbIdx + 1
    /\ encoded' = cbResult[cbIdx]
    /\ UNCHANGED <<cbPc, drawn_frame, annotated_image, outcome, finished, cbResult, cbTs, entry>>
    /\ UNCHANGED <<loopVars, pending, submitted, compVars, splitVars>>

\* a bug: a new prediction is put in front of the list
CbClassify_Prepend ==
    /\ cbPc = "classify"
    /\ cbIdx <= Len(cbResult)
    /\ LET data == Encode(cbResult[cbIdx])
       IN  IF ScalerRaises(data)
           THEN CbExcept
           ELSE /\ predictions' = <<Predict(data)>> \o predictions
                /\ cbIdx' = cbIdx + 1
                /\ UNCHANGED <<cbPc, drawn_frame, annotated_image, outcome,
                               finished, cbResult, cbTs, entry>>
    /\ encoded' = cbResult[cbIdx]
    /\ UNCHANGED <<loopVars, pending, submitted, compVars, splitVars>>

\* One iteration of the for loop (lines 29-35): encode, scale, predict, append.
CbClassify ==
    /\ cbPc = "classify"
    /\ cbIdx <= Len(cbResult)
    /\ LET data == Encode(cbResult[cbIdx])
       IN  IF ScalerRaises(data)
           THEN CbExcept
           ELSE /\ predictions' = Append(predictions, Predict(data))
                /\ cbIdx' = cbIdx + 1
                /\ UNCHANGED <<cbPc, drawn_frame, annotated_image, outcome,
                               finished, cbResult, cbTs, entry>>
    /\ encoded' = cbResult[cbIdx]
    /\ UNCHANGED <<loopVars, pending, submitted, compVars, splitVars>>

\* The for loop is over: draw_landmarks_on_image is called and allocates its
\* canvas (utils.py 67-69).
CbDrawBegin ==
    /\ cbPc = "classify"
    /\ cbIdx > Len(cbResult)
    /\ annotated_image' = Zeros(cbTs)
    /\ cbIdx' = 1
    /\ cbPc' = "draw"
    /\ UNCHANGED <<predictions, drawn_frame, outcome, finished, cbResult, cbTs, entry, encoded>>
    /\ UNCHANGED <<loopVars, pending, submitted, compVars, splitVars>>

\* a bug: the drawing loop draws into the array the global name is bound to
CbDrawHand_InPlace ==
    /\ cbPc = "draw"
    /\ cbIdx <= Len(cbResult)
    /\ cbIdx <= Len(predictions)
    /\ annotated_image' =
         [annotated_image EXCEPT
            !.drawn = Append(@, [hand |-> cbResult[cbIdx], text |-> predictions[cbIdx]])]
    /\ drawn_frame' = annotated_image'
    /\ cbIdx' = cbIdx + 1
    /\ UNCHANGED <<cbPc, predictions, outcome, finished, cbResult, cbTs, entry, encoded>>
    /\ UNCHANGED <<loopVars, pending, submitted, compVars, splitVars>>

\* One iteration of the drawing loop (utils.py 72-104): the skeleton of hand
\* idx and the text predictions[idx], into the local canvas. predictions[idx]
\* raises IndexError when the list is too short.
CbDrawHand ==
    /\ cbPc = "draw"
    /\ cbIdx <= Len(cbResult)
    /\ IF cbIdx > Len(predictions)
       THEN CbExcept
       ELSE /\ annotated_image' =
                 [annotated_image EXCEPT
                    !.drawn = Append(@, [hand |-> cbResult[cbIdx],
                                         text |-> predictions[cbIdx]])]
            /\ cbIdx' = cbIdx + 1
            /\ UNCHANGED <<cbPc, predictions, drawn_frame, outcome, finished,
                           cbResult, cbTs, entry>>
    /\ UNCHANGED encoded
    /\ UNCHANGED <<loopVars, pending, submitted, compVars, splitVars>>

\* a bug: the overlay is assigned only while it is still empty
CbPublish_FirstWins ==
    /\ cbPc = "draw"
    /\ cbIdx > Len(cbResult)
    /\ drawn_frame' = IF drawn_frame.size = 0 THEN annotated_image ELSE drawn_frame
    /\ finished' = finished \cup {annotated_image}
    /\ outcome' = "published"
    /\ cbPc' = "idle"
    /\ cbIdx' = 0
    /\ annotated_image' = EmptyImage
    /\ UNCHANGED <<predictions, cbResult, cbTs, entry, encoded>>
    /\ UNCHANGED <<loopVars, pending, submitted, compVars, splitVars>>

\* return annotated_image (utils.py 106) and the assignment of line 37:
\* the global name drawn_frame is rebound to the returned array.
CbPublish ==
    /\ cbPc = "draw"
    /\ cbIdx > Len(cbResult)
    /\ drawn_frame' = annotated_image
    /\ finished' = finished \cup {annotated_image}
    /\ outcome' = "published"
    /\ cbPc' = "idle"
    /\ cbIdx' = 0
    /\ annotated_image' = EmptyImage
    /\ UNCHANGED <<predictions, cbResult, cbTs, entry, encoded>>
    /\ UNCHANGED <<loopVars, pending, submitted, compVars, splitVars>>

print_result == CbBegin \/ CbClassify \/ CbDrawBegin \/ CbDrawHand \/ CbPublish

(* --------------------- capture loop (demo.py 61-83) ------------------- *)

Running  == {"read", "throttle", "overlay", "composite", "show", "waitkey"}
Stopping == {"exit_with", "release"}

\* while cam.isOpened(): ret, frame = cam.read(); if not ret: break
ReadFrame ==
    /\ pc = "read"
    /\ \E opened \in BOOLEAN, ok \in BOOLEAN :
         IF ~opened
         THEN /\ pc' = "exit_with"
              /\ UNCHANGED <<ret, frames>>
         ELSE IF ok /\ frames < MaxFrames
              THEN /\ ret' = TRUE
                   /\ frames' = frames + 1
                   /\ pc' = "throttle"
              ELSE /\ ret' = FALSE
                   /\ pc' = "exit_with"
                   /\ UNCHANGED frames
    /\ composited' = EmptyImage
    /\ UNCHANGED <<submitted, fps, timestamp, show_timestamp, submits, key, seen, landmarker, cam>>
    /\ UNCHANGED <<pending, cbVars, compVars, splitVars>>

\* a bug: the comparison with INTERVAL is not strict
Throttle_AtLeast ==
    /\ pc = "throttle"
    /\ timestamp' = timestamp + fps
    /\ IF timestamp' - show_timestamp >= INTERVAL
       THEN /\ pending' = Append(pending, timestamp')
            /\ submitted' = Append(submitted, timestamp')
            /\ show_timestamp' = timestamp'
            /\ submits' = submits + 1
       ELSE UNCHANGED <<pending, submitted, show_timestamp, submits>>
    /\ pc' = "overlay"
    /\ UNCHANGED <<fps, frames, ret, key, seen, composited, landmarker, cam>>
    /\ UNCHANGED <<cbVars, compVars, splitVars>>

\* a bug: every frame is submitted
Throttle_EveryFrame ==
    /\ pc = "throttle"
    /\ timestamp' = timestamp + fps
    /\ pending' = Append(pending, timestamp')
    /\ submitted' = Append(submitted, timestamp')
    /\ show_timestamp' = timestamp'
    /\ submits' = submits + 1
    /\ pc' = "overlay"
    /\ UNCHANGED <<fps, frames, ret, key, seen, composited, landmarker, cam>>
    /\ UNCHANGED <<cbVars, compVars, splitVars>>

\* a bug: a submission waits until the detector has delivered the last result
Throttle_Blocking ==
    /\ pc = "throttle"
    /\ timestamp' = timestamp + fps
    /\ IF timestamp' - show_timestamp > INTERVAL
       THEN /\ pending = <<>>
            /\ cbPc = "idle"
            /\ pending' = Append(pending, timestamp')
            /\ submitted' = Append(submitted, timestamp')
            /\ show_timestamp' = timestamp'
            /\ submits' = submits + 1
       ELSE UNCHANGED <<pending, submitted, show_timestamp, submits>>
    /\ pc' = "overlay"
    /\ UNCHANGED <<fps, frames, ret, key, seen, composited, landmarker, cam>>
    /\ UNCHANGED <<cbVars, compVars, splitVars>>

\* timestamp += fps; if timestamp - show_timestamp > INTERVAL: detect_async(...)
Throttle ==
    /\ pc = "throttle"
    /\ timestamp' = timestamp + fps
    /\ IF timestamp' - show_timestamp > INTERVAL
       THEN /\ pending' = Append(pending, timestamp')
            /\ submitted' = Append(submitted, timestamp')
            /\ show_timestamp' = timestamp'
            /\ submits' = submits + 1
       ELSE UNCHANGED <<pending, submitted, show_timestamp, submits>>
    /\ pc' = "overlay"
    /\ UNCHANGED <<fps, frames, ret, key, seen, composited, landmarker, cam>>
    /\ UNCHANGED <<cbVars, compVars, splitVars>>

\* if drawn_frame.size > 0:
CheckOverlay ==
    /\ pc = "overlay"
    /\ seen' = drawn_frame
    /\ pc' = IF drawn_frame.size > 0 THEN "composite" ELSE "show"
    /\ UNCHANGED <<submitted, fps, timestamp, show_timestamp, frames, submits, ret, key,
                   composited, landmarker, cam>>
    /\ UNCHANGED <<pending, cbVars, compVars, splitVars>>

\* frame = add_transparent_image(frame, drawn_frame)
Composite ==
    /\ pc = "composite"
    /\ seen' = drawn_frame
    /\ composited' = drawn_frame
    /\ pc' = "show"
    /\ UNCHANGED <<submitted, fps, timestamp, show_timestamp, frames, submits, ret, key,
                   landmarker, cam>>
    /\ UNCHANGED <<pending, cbVars, compVars, splitVars>>

\* cv2.imshow("Camera", cv2.flip(frame, 1))
Show ==
    /\ pc = "show"
    /\ pc' = "waitkey"
    /\ UNCHANGED <<submitted, fps, timestamp, show_timestamp, frames, submits, ret, key,
                   seen, composited, landmarker, cam>>
    /\ UNCHANGED <<pending, cbVars, compVars, splitVars>>

\* a bug: the ESC key does not leave the loop
WaitKey_NoBreak ==
    /\ pc = "waitkey"
    /\ \E k \in Keys :
         /\ key' = k
         /\ pc' = "read"
    /\ UNCHANGED <<submitted, fps, timestamp, show_timestamp, frames, submits, ret,
                   seen, composited, landmarker, cam>>
    /\ UNCHANGED <<pending, cbVars, compVars, splitVars>>

\* if cv2.waitKey(5) & 0xFF == 27: break
WaitKey ==
    /\ pc = "waitkey"
    /\ \E k \in Keys :
         /\ key' = k
         /\ pc' = IF k = ESC THEN "exit_with" ELSE "read"
    /\ UNCHANGED <<submitted, fps, timestamp, show_timestamp, frames, submits, ret,
                   seen, composited, landmarker, cam>>
    /\ UNCHANGED <<pending, cbVars, compVars, splitVars>>

\* Leaving the with block closes the landmarker. close() returns once the
\* detector's graph is idle: a callback in progress finishes first, and no
\* callback starts afterwards.
ExitWith ==
    /\ pc = "exit_with"
    /\ cbPc = "idle"
    /\ landmarker' = "closed"
    /\ pending' = <<>>
    /\ pc' = "release"
    /\ UNCHANGED <<submitted, fps, timestamp, show_timestamp, frames, submits, ret, key,
                   seen, composited, cam>>
    /\ UNCHANGED <<cbVars, compVars, splitVars>>

\* cam.release(); cv2.destroyAllWindows()
ReleaseCam ==
    /\ pc = "release"
    /\ cam' = "released"
    /\ pc' = "done"
    /\ UNCHANGED <<submitted, fps, timestamp, show_timestamp, frames, submits, ret, key,
                   seen, composited, landmarker>>
    /\ UNCHANGED <<pending, cbVars, compVars, splitVars>>

\* the steps of one iteration between a successful read and the display
LoopStep == Throttle \/ CheckOverlay \/ Composite \/ Show

\* any step of the capture loop while it is RUNNING
LoopAdvance == ReadFrame \/ LoopStep \/ WaitKey

(* ----------------------- dataset split (Model/test.py) --------------- *)

\* letters = list("ABCDEFGHIKLMNOPQRSTUVWXY#"): the model keeps two of them
letters == <<"A", "#">>

\* values of the column "letter": letters of the list, and "J", which the
\* list leaves out
RowLetters == { "A", "#", "J" }

\* a bug: the training share is rounded to the nearest integer
TrainSize_Rounded(n) == (8 * n + 5) \div 10

\* int(len(letter_data) * 0.8): the double product truncated, which is
\* floor(8n / 10) for every n up to 2 000 000
TrainSize(n) == (8 * n) \div 10

\* df[df["letter"] == letter], as the set of its index labels
LetterData(letter) == { r \in DOMAIN df : df[r] = letter }

\* pd.concat(samples, ignore_index=True).sample(frac=1): every row of every
\* sample once, in some order; kept as row -> number of copies
Concat(samples) ==
    [r \in DOMAIN df |-> Cardinality({ i \in DOMAIN samples : r \in samples[i] })]

\* One iteration of the for loop (lines 26-34): sample draws TrainSize rows
\* without replacement, drop removes them by index label, and the second
\* sample takes all that remain.
SplitLetter ==
    /\ spc = "split"
    /\ letterIdx <= Len(letters)
    /\ LET letter_data == LetterData(letters[letterIdx])
       IN  \E train_sample \in SUBSET letter_data :
             /\ Cardinality(train_sample) = TrainSize(Cardinality(letter_data))
             /\ LET remaining == letter_data \ train_sample
                IN  /\ train_data' = Append(train_data, train_sample)
                    /\ test_data' = Append(test_data, remaining)
    /\ letterIdx' = letterIdx + 1
    /\ UNCHANGED <<df, spc, train_df, test_df>>
    /\ UNCHANGED <<loopVars, pending, submitted, cbVars, compVars>>

\* Combine and shuffle (lines 37-40), then the two tables are written.
Combine ==
    /\ spc = "split"
    /\ letterIdx > Len(letters)
    /\ train_df' = Concat(train_data)
    /\ test_df' = Concat(test_data)
    /\ spc' = "done"
    /\ UNCHANGED <<df, letterIdx, train_data, test_data>>
    /\ UNCHANGED <<loopVars, pending, submitted, cbVars, compVars>>

(* --------------------------- specifications --------------------------- *)

\* the split utility is not part of the demo
SplitIdle ==
    /\ df = <<>>
    /\ spc = "idle"
    /\ letterIdx = 0
    /\ train_data = <<>>
    /\ test_data = <<>>
    /\ train_df = <<>>
    /\ test_df = <<>>

LoopInit ==
    /\ pc = "read"
    /\ timestamp = 0
    /\ show_timestamp = 0
    /\ frames = 0
    /\ submits = 0
    /\ ret = TRUE
    /\ key = 255
    /\ seen = EmptyImage
    /\ composited = EmptyImage
    /\ landmarker = "open"
    /\ cam = "open"
    /\ pending = <<>>
    /\ submitted = <<>>

CbInit ==
    /\ cbPc = "idle"
    /\ cbResult = <<>>
    /\ cbTs = 0
    /\ cbIdx = 0
    /\ annotated_image = EmptyImage
    /\ predictions = <<>>
    /\ drawn_frame = EmptyImage
    /\ entry = [drawn_frame |-> EmptyImage, predictions |-> <<>>]
    /\ outcome = "none"
    /\ finished = {}
    /\ encoded = <<>>

\* the live demo: fps = math.floor(1000 / cam.get(cv2.CAP_PROP_FPS))
Init ==
    /\ LoopInit
    /\ CbInit
    /\ fps \in { 1000 \div rate : rate \in CamRates }
    /\ background = <<>>
    /\ foreground = <<>>
    /\ output = <<>>
    /\ cpc = "idle"
    /\ SplitIdle

Next ==
    \/ ReadFrame
    \/ Throttle
    \/ CheckOverlay
    \/ Composite
    \/ Show
    \/ WaitKey
    \/ ExitWith
    \/ ReleaseCam
    \/ CbBegin
    \/ CbClassify
    \/ CbDrawBegin
    \/ CbDrawHand
    \/ CbPublish

Spec == Init /\ [][Next]_vars

\* add_transparent_image alone, on every pair of images of the bounded sets
InitCompose ==
    /\ LoopInit
    /\ CbInit
    /\ fps = 33
    /\ background \in [PixelIdx -> BgPixels]
    /\ foreground \in [PixelIdx -> FgPixels]
    /\ output = <<>>
    /\ cpc = "call"
    /\ SplitIdle

NextCompose == Compose /\ UNCHANGED <<loopVars, pending, submitted, cbVars>>

SpecCompose == InitCompose /\ [][NextCompose]_vars

\* the labels classifier.predict returns in this model
Labels == { "A", "B" }

\* draw_landmarks_on_image alone, called on every result and every list of
\* predictions of the bounded sets (also lists shorter or longer than the
\* result); the state is the one right after the canvas was allocated
InitDraw ==
    /\ LoopInit
    /\ fps = 33
    /\ cbPc = "draw"
    /\ cbResult \in Results
    /\ predictions \in SeqsUpTo(Labels, NumHands + 1)
    /\ cbTs = 33
    /\ cbIdx = 1
    /\ annotated_image = Zeros(33)
    /\ drawn_frame = EmptyImage
    /\ entry = [drawn_frame |-> EmptyImage, predictions |-> <<>>]
    /\ outcome = "none"
    /\ finished = {}
    /\ encoded = <<>>
    /\ background = <<>>
    /\ foreground = <<>>
    /\ output = <<>>
    /\ cpc = "idle"
    /\ SplitIdle

NextDraw == CbDrawHand \/ CbPublish

SpecDraw == InitDraw /\ [][NextDraw]_vars

\* the split utility on every table of at most MaxRows rows
InitSplit ==
    /\ LoopInit
    /\ CbInit
    /\ fps = 33
    /\ background = <<>>
    /\ foreground = <<>>
    /\ output = <<>>
    /\ cpc = "idle"
    /\ \E n \in 0..MaxRows : df \in [1..n -> RowLetters]
    /\ spc = "split"
    /\ letterIdx = 1
    /\ train_data = <<>>
    /\ test_data = <<>>
    /\ train_df = <<>>
    /\ test_df = <<>>

NextSplit == SplitLetter \/ Combine

SpecSplit == InitSplit /\ [][NextSplit]_vars

(* ------------------------------- claims ------------------------------- *)

\* C1: every value the capture loop reads from drawn_frame is the initial
\* empty array or the array a finished draw_landmarks_on_image call returned;
\* never a canvas that is still being drawn.
C1_ReadsCompleteImages == seen = EmptyImage \/ seen \in finished

\* C1 witness: the loop composited a published overlay while a later call of
\* print_result is in the middle of drawing a two-hand result.
C1_Witness ==
    /\ pc = "show"
    /\ composited # EmptyImage
    /\ cbPc = "draw"
    /\ Len(cbResult) = 2
    /\ Len(annotated_image.drawn) = 1
    /\ seen.id # cbTs

\* C2 (as claimed): in every state, also in the middle of print_result, the
\* predictions list is the list of labels drawn in the current overlay.
C2_OverlayStateWhole == predictions = LabelsOf(drawn_frame)

\* hands of a result whose classification does not raise
Classifiable(result) == SelectSeq(result, LAMBDA h : ~ScalerRaises(Encode(h)))

\* the labels of a sequence of classifiable hands
LabelsFor(hands) == [i \in 1..Len(hands) |-> Predict(Encode(hands[i]))]

\* the hands of a result before its first failing one
RECURSIVE BeforeFailure(_)
BeforeFailure(result) ==
    IF result = <<>> \/ ScalerRaises(Encode(Head(result))) THEN <<>>
    ELSE <<Head(result)>> \o BeforeFailure(Tail(result))

\* the last call of print_result is over and one of the several hands of its
\* result could not be classified
SeveralHandsOneFailed ==
    /\ cbPc = "idle"
    /\ outcome # "none"
    /\ Len(cbResult) > 1
    /\ \E i \in 1..Len(cbResult) : ScalerRaises(Encode(cbResult[i]))

C4_FailureLeavesOverlayState ==
    (cbPc = "idle" /\ outcome = "raised") =>
        /\ drawn_frame = entry.drawn_frame
        /\ predictions = entry.predictions

\* C5: over a run in which the timestamp advanced by N = timestamp units,
\* detect_async was called at most floor(N / INTERVAL) + 1 times.
C5_ThrottleBound == submits <= (timestamp \div INTERVAL) + 1

\* C5 witness: a run with a per-frame step of at most INTERVAL in which a
\* frame was submitted and a later frame was held back.
C5_Witness ==
    /\ fps <= INTERVAL
    /\ submits >= 1
    /\ timestamp > show_timestamp
    /\ pc = "overlay"

\* C6 (as claimed): of the frames a finished run captured, some were not
\* submitted, whatever the camera's frame rate.
C6_SomeFramesNotSubmitted == (pc = "done" /\ frames > 0) => submits < frames

\* C7: between a successful read and the display, the next step of the loop
\* can always be taken, whatever the detector and the callback are doing.
C7_LoopNeverWaits ==
    pc \in {"throttle", "overlay", "composite", "show"} => ENABLED LoopStep

\* C7 witness: a frame was displayed without an overlay while two
\* submissions are outstanding and no callback has run yet.
C7_Witness ==
    /\ pc = "waitkey"
    /\ Len(pending) >= 2
    /\ outcome = "none"
    /\ cbPc = "idle"
    /\ composited = EmptyImage

\* C8: a failed read or the ESC key takes the loop from RUNNING to STOPPING;
\* STOPPING closes the landmarker and then releases the camera; STOPPED is
\* terminal; outside RUNNING no frame is read or submitted and drawn_frame
\* is not read.
C8_Lifecycle ==
    [][ /\ (pc \in Running /\ pc' \notin Running) =>
              (pc \in {"read", "waitkey"} /\ pc' = "exit_with")
        /\ (pc = "read" /\ pc' # pc /\ ret' = FALSE) => pc' = "exit_with"
        /\ (pc = "waitkey" /\ pc' # pc /\ key' = ESC) => pc' = "exit_with"
        /\ (pc = "exit_with" /\ pc' # pc) =>
              (pc' = "release" /\ landmarker' = "closed" /\ cam' = "open")
        /\ (pc = "release" /\ pc' # pc) =>
              (pc' = "done" /\ landmarker = "closed" /\ cam' = "released")
        /\ pc = "done" => pc' = "done"
        /\ pc \notin Running =>
              (frames' = frames /\ submits' = submits /\ seen' = seen
               /\ composited' = composited /\ timestamp' = timestamp)
      ]_vars

\* C8 witness: a run that displayed a frame, was cancelled with ESC and has
\* reached STOPPED with both handles released.
C8_Witness ==
    /\ pc = "done"
    /\ key = ESC
    /\ frames >= 1
    /\ submits >= 1
    /\ landmarker = "closed"
    /\ cam = "released"

AllZero(image) == \A i \in DOMAIN image : image[i] = <<0, 0, 0>>

\* C9: with an overlay whose pixels are all zero, add_transparent_image
\* returns the background, pixel by pixel and channel by channel.
C9_ZeroOverlayIdentity ==
    (cpc = "returned" /\ AllZero(foreground)) => output = background

\* C9 witness: a call returned for an all-zero overlay over a background
\* that is not black.
C9_Witness ==
    /\ cpc = "returned"
    /\ AllZero(foreground)
    /\ \E i \in PixelIdx : background[i] = <<10, 20, 30>>

\* C10: a call of add_transparent_image leaves both arrays as they were and
\* returns, at each pixel, the overlay colour when the overlay's unwrapped
\* channel sum is positive and the background colour otherwise.
C10_PerPixelSelection ==
    [][ (cpc = "call" /\ cpc' = "returned") =>
           /\ background' = background
           /\ foreground' = foreground
           /\ DOMAIN output' = DOMAIN background
           /\ \A i \in DOMAIN background :
                output'[i] = IF foreground[i][1] + foreground[i][2] + foreground[i][3] > 0
                             THEN foreground[i] ELSE background[i]
      ]_vars

\* C10 witness: a call returned for an overlay with a pixel whose channel
\* sum is 256 next to a transparent pixel.
C10_Witness ==
    /\ cpc = "returned"
    /\ foreground[1] = <<128, 128, 0>>
    /\ foreground[2] = <<0, 0, 0>>
    /\ background[1] = <<10, 20, 30>>
    /\ background[2] = <<255, 255, 255>>

\* C11: after a call on a result without hands has published, predictions
\* is empty and the overlay is an all-zero image of the frame's shape; a frame
\* on which such an overlay was composited shows the captured pixels.
C11_ZeroObservations ==
    /\ (cbPc = "idle" /\ outcome = "published" /\ cbResult = <<>>) =>
          /\ predictions = <<>>
          /\ drawn_frame.size > 0
          /\ DOMAIN Raster(drawn_frame) = PixelIdx
          /\ AllZero(Raster(drawn_frame))
    /\ (pc \in {"show", "waitkey"} /\ composited # EmptyImage /\ composited.drawn = <<>>) =>
          \A frame \in [PixelIdx -> BgPixels] :
              add_transparent_image(frame, Raster(composited)) = frame

\* C11 witness: the overlay of a result without hands, published after a
\* call that had drawn a hand, was composited and displayed.
C11_Witness ==
    /\ pc = "waitkey"
    /\ composited # EmptyImage
    /\ composited.drawn = <<>>
    /\ composited = drawn_frame
    /\ entry.drawn_frame # EmptyImage
    /\ entry.drawn_frame.drawn # <<>>
    /\ cbPc = "idle"
    /\ outcome = "published"
    /\ cbResult = <<>>

\* C12: after a call that published for a result with k hands, predictions
\* has k entries, entry i is the classifier's label for hand i, and the
\* overlay holds k skeletons, skeleton i labelled predictions[i].
C12_ParallelPredictions ==
    (cbPc = "idle" /\ outcome = "published") =>
        /\ Len(predictions) = Len(cbResult)
        /\ \A i \in 1..Len(cbResult) : predictions[i] = Predict(Encode(cbResult[i]))
        /\ Len(drawn_frame.drawn) = Len(cbResult)
        /\ \A i \in 1..Len(cbResult) :
              /\ drawn_frame.drawn[i].hand = cbResult[i]
              /\ drawn_frame.drawn[i].text = predictions[i]
        /\ drawn_frame = Rendered(cbTs, cbResult, predictions)

\* C12 witness: a call published for two hands with different labels.
C12_Witness ==
    /\ cbPc = "idle"
    /\ outcome = "published"
    /\ Len(cbResult) = 2
    /\ predictions = <<"A", "B">>

\* the row is the encoding of a hand with NumLandmarks landmarks: its first
\* element is the handedness index, element 1 + 3i + k (0-based) is
\* coordinate k of landmark i
WellFormedRow(row) ==
    /\ Len(row) = NumFeatures
    /\ \E hand \in Hands :
         /\ hand.n = NumLandmarks
         /\ row[1] = hand.hd
         /\ \A i \in 0..(NumLandmarks - 1), k \in 0..2 :
                row[1 + 3 * i + k + 1] = Coords(hand, i + 1)[k + 1]

\* C13 (as claimed): the row built for a hand is only ever built from a hand
\* with 21 landmarks, and then has 64 elements in the layout above; for any
\* other landmark count encoding fails and builds no row.
C13_EncodeChecksLandmarkCount ==
    encoded = <<>> \/ WellFormedRow(FeatureVector(encoded))

\* C14 (as claimed): a call of draw_landmarks_on_image with a number of
\* predictions other than the number of hands, fewer or more, has failed and
\* no overlay was published.
C14_MismatchFails ==
    (cbPc = "idle" /\ Len(predictions) # Len(cbResult)) =>
        (outcome = "raised" /\ drawn_frame = EmptyImage)

\* the next step of print_result raises: scaler.transform on the current
\* hand, or predictions[idx] in the drawing loop
NextStepRaises ==
    \/ /\ cbPc = "classify"
       /\ cbIdx <= Len(cbResult)
       /\ ScalerRaises(Encode(cbResult[cbIdx]))
    \/ /\ cbPc = "draw"
       /\ cbIdx <= Len(cbResult)
       /\ cbIdx > Len(predictions)

\* C15: the step of print_result that raises ends the call normally (the
\* callback is idle again) and changes nothing of the capture loop or of the
\* detector's queue; and while the loop is RUNNING its next step can always
\* be taken.
C15_FailuresDoNotStopLoop ==
    [][ /\ (NextStepRaises /\ cbVars' # cbVars) =>
              /\ cbPc' = "idle"
              /\ outcome' = "raised"
              /\ loopVars' = loopVars
              /\ pending' = pending
        /\ pc \in Running => ENABLED LoopAdvance
      ]_vars

\* C15 witness: a call has failed and the loop, still RUNNING, is about to
\* display a frame with the overlay of an earlier call.
C15_Witness ==
    /\ pc = "show"
    /\ outcome = "raised"
    /\ cbPc = "idle"
    /\ composited # EmptyImage
    /\ frames >= 2

\* copies of the rows of a set in an output table
RECURSIVE Copies(_, _)
Copies(table, rows) ==
    IF rows = {} THEN 0
    ELSE LET r == CHOOSE x \in rows : TRUE
         IN  table[r] + Copies(table, rows \ {r})

\* C16: when the split is done, for every letter of the list with n rows the
\* training table holds floor(0.8 n) of them and the test table the other
\* n - floor(0.8 n); every such row is in exactly one table, once, and no
\* row of the input is in both.
C16_SplitPartitionsLetters ==
    spc = "done" =>
        /\ \A i \in DOMAIN letters :
             LET rows == { r \in DOMAIN df : df[r] = letters[i] }
                 n    == Cardinality(rows)
             IN  /\ Copies(train_df, rows) = (8 * n) \div 10
                 /\ Copies(test_df, rows) = n - (8 * n) \div 10
                 /\ \A r \in rows : train_df[r] + test_df[r] = 1
        /\ \A r \in DOMAIN df : ~(train_df[r] > 0 /\ test_df[r] > 0)

\* C16 witness: a finished split of a table with five rows of one letter,
\* four of them in the training table and one in the test table.
C16_Witness ==
    /\ spc = "done"
    /\ Cardinality({ r \in DOMAIN df : df[r] = "A" }) = 5
    /\ Copies(train_df, DOMAIN df) = 4
    /\ Copies(test_df, DOMAIN df) = 1

\* the image returned by the call of print_result that was the last to
\* publish: callbacks run in submission order and an image's id is the
\* timestamp of its call
LatestPublished ==
    IF finished = {} THEN EmptyImage
    ELSE CHOOSE img \in finished : \A other \in finished : other.id <= img.id

\* C17: drawn_frame is always the overlay of the last call that published;
\* Composite puts that overlay on the frame; a call that raises leaves it.
C17_LastWriterWins ==
    [][ /\ drawn_frame = LatestPublished
        /\ (pc = "composite" /\ pc' = "show") => composited' = LatestPublished
        /\ (NextStepRaises /\ cbVars' # cbVars) =>
              (drawn_frame' = LatestPublished /\ finished' = finished)
      ]_vars

\* C17 witness: two calls published, a third one failed, and the loop
\* composited the overlay of the second.
C17_Witness ==
    /\ pc = "show"
    /\ Cardinality(finished) = 2
    /\ outcome = "raised"
    /\ cbPc = "idle"
    /\ pending = <<>>
    /\ composited # EmptyImage
    /\ composited = LatestPublished

\* C18: while no call has published, drawn_frame is the empty array, the
\* loop skips compositing and shows the frame as captured; once a call has
\* published, the check of line 74 leads to compositing, a composited frame
\* carries an overlay, and drawn_frame is never the empty array again.
C18_OverlayStartsEmpty ==
    [][ /\ finished = {} => drawn_frame = EmptyImage
        /\ (pc = "overlay" /\ pc' # pc) =>
              pc' = (IF finished = {} THEN "show" ELSE "composite")
        /\ (pc = "show" /\ finished = {}) => composited = EmptyImage
        /\ (pc = "composite" /\ pc' # pc) => composited' # EmptyImage
        /\ drawn_frame # EmptyImage => drawn_frame' # EmptyImage
      ]_vars

\* C18 witness: the third frame is shown with the overlay of the second
\* submission, the only one published so far (the first call failed).
C18_Witness ==
    /\ pc = "show"
    /\ frames = 3
    /\ Cardinality(finished) = 1
    /\ composited # EmptyImage
    /\ composited.id = 66

\* C19: the timestamps passed to detect_async increase strictly, consecutive
\* ones by more than INTERVAL; show_timestamp is the last of them (0 when
\* there is none) and is at most timestamp; with a step of 0 nothing is
\* submitted.
C19_SubmittedTimestamps ==
    /\ \A i \in 1..Len(submitted), j \in 1..Len(submitted) :
          i < j => submitted[i] < submitted[j]
    /\ \A i \in 1..(Len(submitted) - 1) : submitted[i + 1] - submitted[i] > INTERVAL
    /\ show_timestamp = (IF submitted = <<>> THEN 0 ELSE submitted[Len(submitted)])
    /\ show_timestamp <= timestamp
    /\ fps = 0 => submitted = <<>>

\* C19 witness: three frames were submitted, the last more than INTERVAL
\* after the one before, and show_timestamp is the last one.
C19_Witness ==
    /\ Len(submitted) = 3
    /\ submitted[3] - submitted[2] > INTERVAL
    /\ show_timestamp = submitted[3]

====
